---- MODULE Spec2Model ----
(***************************************************************************)
(* Model of the Obsidian restic backup plugin (src/main.js).               *)
(*                                                                         *)
(* JavaScript strings are sequences of one-character strings, so that      *)
(* split, trim and the empty-string tests are computed as the code         *)
(* computes them.  The JavaScript value null is the one-element sequence   *)
(* Null, which no string over the alphabets used here equals.              *)
(***************************************************************************)
EXTENDS Integers, Sequences, FiniteSets, TLC

VARIABLES
    pc,                  \* lifecycle of the plugin instance
    processEnv,          \* process.env of the host process
    settings,            \* this.settings
    localStorage,        \* window.localStorage item "<id>:settings"
    dataJson,            \* data.json as read by loadData / written by saveData
    detectResult,        \* how the detectRestic call of loadSettings ended
    timerRegistered,     \* window.setInterval callback registered by onload
    commandRegistered,   \* "Backup" command registered by onload
    calls,               \* every call of resticBackup, in call order
    spawnCount,          \* backup subprocesses spawned so far
    notices,             \* Notice objects shown, in order
    unhandled,           \* calls whose rejection no handler received
    edits,               \* settings changes made in the settings tab so far
    shell                \* the getShellEnv calls: how many, the subprocesses
                         \* they spawned, the last captured output and result

vars == <<pc, processEnv, settings, localStorage, dataJson, detectResult,
          timerRegistered, commandRegistered, calls, spawnCount, notices,
          unhandled, edits, shell>>

-----------------------------------------------------------------------------
(* Bounds *)

MaxCalls == 2
MaxEdits == 1
MaxTagLen == 4
MaxOut == 5
MaxLoads == 2
MaxEnvLen == 4

-----------------------------------------------------------------------------
(* JavaScript string primitives *)

Null == <<"<null>">>

Falsy(v) == v = Null \/ v = <<>>

IsSpace(c) == c \in {" ", "\t", "\n", "\r"}

RECURSIVE TrimStart(_)
TrimStart(s) ==
    IF s = <<>> THEN s
    ELSE IF IsSpace(Head(s)) THEN TrimStart(Tail(s)) ELSE s

RECURSIVE TrimEnd(_)
TrimEnd(s) ==
    IF s = <<>> THEN s
    ELSE IF IsSpace(s[Len(s)]) THEN TrimEnd(SubSeq(s, 1, Len(s) - 1)) ELSE s

\* String.prototype.trim
Trim(s) == TrimEnd(TrimStart(s))

IndexOf(s, sep) ==
    IF \E i \in 1..Len(s) : s[i] = sep
    THEN CHOOSE i \in 1..Len(s) : s[i] = sep /\ \A j \in 1..(i - 1) : s[j] # sep
    ELSE 0

\* String.prototype.split with a one-character separator and no limit
RECURSIVE Split(_, _)
Split(s, sep) ==
    LET i == IndexOf(s, sep)
    IN  IF i = 0 THEN <<s>>
        ELSE <<SubSeq(s, 1, i - 1)>> \o Split(SubSeq(s, i + 1, Len(s)), sep)

\* String.prototype.split with a limit: the first `limit` segments are kept
SplitLimit(s, sep, limit) ==
    LET parts == Split(s, sep)
    IN  IF Len(parts) > limit THEN SubSeq(parts, 1, limit) ELSE parts

\* Array.prototype.map with (t) => t.trim()
TrimAll(seq) == [i \in 1..Len(seq) |-> Trim(seq[i])]

\* Every string over alphabet of length at most n
StringsUpTo(alphabet, n) == UNION {[1..k -> alphabet] : k \in 0..n}

-----------------------------------------------------------------------------
(* Settings and their two stores *)

DEFAULT_SETTINGS ==
    [enabled |-> FALSE,
     resticBinPath |-> <<>>,
     resticRepository |-> <<>>,
     resticPasswordFile |-> <<>>,
     resticPasswordCommand |-> <<>>,
     resticTags |-> <<>>,
     backupInterval |-> 3600]

LOCAL_SETTINGS ==
    {"enabled", "resticBinPath", "resticRepository", "resticPasswordFile",
     "resticPasswordCommand"}

\* Object.assign({}, a, b): the keys of b override those of a
Assign(a, b) == b @@ a

\* An empty object, as `{}` and as what a store without content yields
EmptyObject == <<>>

\* The two objects saveSettings builds from this.settings
saveSettings(s) ==
    [local |-> [k \in DOMAIN s \cap LOCAL_SETTINGS |-> s[k]],
     data |-> [k \in DOMAIN s \ LOCAL_SETTINGS |-> s[k]]]

-----------------------------------------------------------------------------
(* Results of calls that may throw *)

Return(v) == [kind |-> "return", value |-> v]

Throw(e) == [kind |-> "throw", error |-> e]

NotCalled == [kind |-> "not called"]

\* The JavaScript value undefined (a missing property, a missing array slot)
Undefined == <<"<undefined>">>

Get(obj, key) == IF key \in DOMAIN obj THEN obj[key] ELSE Undefined

Truthy(v) == ~Falsy(v) /\ v # Undefined

-----------------------------------------------------------------------------
(* getShellEnv and detectRestic *)

\* The loop of getShellEnv over the lines of the shell's output
RECURSIVE EnvOfLines(_, _)
EnvOfLines(lines, env) ==
    IF lines = <<>> THEN env
    ELSE LET parts == SplitLimit(Head(lines), "=", 2)
             key == parts[1]
             value == IF Len(parts) >= 2 THEN parts[2] ELSE Undefined
         IN  EnvOfLines(Tail(lines),
                        IF key # <<>> THEN (key :> value) @@ env ELSE env)

\* Variant in which the shell is run before SHELL is checked
ShellSpawns_BeforeCheck(penv) == 1

\* The shell subprocesses one call of getShellEnv spawns: the assertion on
\* SHELL comes before execFile
ShellSpawns(penv) == IF Truthy(Get(penv, "SHELL")) THEN 1 ELSE 0

\* shellRun is how the `$SHELL -l -c env` subprocess ends
getShellEnv(penv, shellRun) ==
    IF ~Truthy(Get(penv, "SHELL"))
    THEN Throw("SHELL environment variable is set")
    ELSE IF ~shellRun.ok THEN Throw("Command failed: shell")
    ELSE Return(EnvOfLines(Split(shellRun.stdout, "\n"), EmptyObject))

\* whichRun is how the `which restic` subprocess ends
detectRestic(penv, shellRun, whichRun) ==
    LET env == getShellEnv(penv, shellRun)
    IN  IF env.kind = "throw" THEN env
        ELSE IF ~whichRun.ok THEN Return(Null)
        ELSE LET result == Trim(whichRun.stdout)
             IN  Return(IF result = <<>> THEN Null ELSE result)

-----------------------------------------------------------------------------
(* loadSettings *)

\* cur is this.settings at the call, ls and dj the two stores
loadSettings(cur, ls, dj, penv, shellRun, whichRun) ==
    LET needDetect == ~Truthy(Get(ls, "resticBinPath"))
        det == IF needDetect THEN detectRestic(penv, shellRun, whichRun)
               ELSE NotCalled
    IN  IF det.kind = "throw"
        THEN [kind |-> "throw", settings |-> cur, local |-> ls, data |-> dj,
              detect |-> det]
        ELSE LET localSettings ==
                     IF needDetect THEN ("resticBinPath" :> det.value) @@ ls
                     ELSE ls
                 saved == saveSettings(cur)
                 ls2 == IF needDetect THEN saved.local ELSE ls
                 dj2 == IF needDetect THEN saved.data ELSE dj
             IN  [kind |-> "return",
                  settings |-> Assign(Assign(DEFAULT_SETTINGS, localSettings), dj2),
                  local |-> ls2, data |-> dj2, detect |-> det]

-----------------------------------------------------------------------------
(* parseResticSummary *)

(* The captured output is a sequence of tokens: " " and "\n" are those      *)
(* characters; every other token stands for a run of text without           *)
(* whitespace:                                                              *)
(*   "S1"  {"message_type":"summary","files_new":1,"snapshot_id":"s1"}      *)
(*   "S2"  {"message_type":"summary","files_new":2,"snapshot_id":"s2"}      *)
(*   "T"   {"message_type":"status","percent_done":0}                       *)
(*   "N"   null                                                             *)
(*   "7"   the digit 7                                                      *)
(*   "X"   text that is not JSON                                            *)
JSONValue ==
    [S1 |-> [type |-> "object", message_type |-> "summary", files_new |-> 1,
             snapshot_id |-> "s1"],
     S2 |-> [type |-> "object", message_type |-> "summary", files_new |-> 2,
             snapshot_id |-> "s2"],
     T  |-> [type |-> "object", message_type |-> "status", percent_done |-> 0],
     N  |-> [type |-> "null"]]

\* JSON.parse of one line: whitespace around the single value is skipped,
\* a run of digits is a number, anything else is a SyntaxError
JSONParse(text) ==
    LET t == Trim(text)
    IN  IF t # <<>> /\ \A i \in 1..Len(t) : t[i] = "7"
        THEN Return([type |-> "number", digits |-> Len(t)])
        ELSE IF Len(t) = 1 /\ t[1] \in DOMAIN JSONValue
        THEN Return(JSONValue[t[1]])
        ELSE Throw("SyntaxError")

\* msg.message_type: a TypeError on null, undefined when the property is absent
MessageType(msg) ==
    IF msg.type = "null" THEN Throw("TypeError")
    ELSE IF "message_type" \in DOMAIN msg THEN Return(msg.message_type)
    ELSE Return("undefined")

NoSummaryError == Throw("No summary found in restic output")

\* Variant of the loop whose catch block gives up instead of continuing
RECURSIVE ScanLines_StopsAtNoise(_)
ScanLines_StopsAtNoise(lines) ==
    IF lines = <<>> THEN NoSummaryError
    ELSE LET msg == JSONParse(Head(lines))
         IN  IF msg.kind = "throw" THEN NoSummaryError
             ELSE LET mt == MessageType(msg.value)
                  IN  IF mt.kind = "throw" THEN NoSummaryError
                      ELSE IF mt.value = "summary" THEN Return(msg.value)
                      ELSE ScanLines_StopsAtNoise(Tail(lines))

\* The for loop of parseResticSummary
RECURSIVE ScanLines(_)
ScanLines(lines) ==
    IF lines = <<>> THEN NoSummaryError
    ELSE LET msg == JSONParse(Head(lines))
         IN  IF msg.kind = "throw" THEN ScanLines(Tail(lines))
             ELSE LET mt == MessageType(msg.value)
                  IN  IF mt.kind = "throw" THEN ScanLines(Tail(lines))
                      ELSE IF mt.value = "summary" THEN Return(msg.value)
                      ELSE ScanLines(Tail(lines))

Reverse(seq) == [i \in 1..Len(seq) |-> seq[Len(seq) + 1 - i]]

\* Variant that keeps the last summary record rather than the first
parseResticSummary_LastWins(stdout) ==
    ScanLines(Reverse(Split(Trim(stdout), "\n")))

\* Variant that returns an empty record when no summary is found
parseResticSummary_Lenient(stdout) ==
    LET r == ScanLines(Split(Trim(stdout), "\n"))
    IN  IF r.kind = "throw" THEN Return([type |-> "object"]) ELSE r

parseResticSummary(stdout) == ScanLines(Split(Trim(stdout), "\n"))

-----------------------------------------------------------------------------
(* resticBackup *)

\* adapter.getBasePath()
BasePath == <<"/", "v">>

BackupVerb == <<"b", "a", "c", "k", "u", "p">>

JsonFlag == <<"-", "-", "j", "s", "o", "n">>

SkipFlag ==
    <<"-", "-", "s", "k", "i", "p", "-", "i", "f", "-",
      "u", "n", "c", "h", "a", "n", "g", "e", "d">>

TagFlag == <<"-", "-", "t", "a", "g">>

\* The loop pushing "--tag", tag for every element of tags
RECURSIVE TagArgs(_)
TagArgs(tags) ==
    IF tags = <<>> THEN <<>>
    ELSE <<TagFlag, Head(tags)>> \o TagArgs(Tail(tags))

\* The argument list resticBackup builds
BuildArgs(s) ==
    LET base == <<BackupVerb, BasePath, JsonFlag, SkipFlag>>
    IN  IF s.resticTags # <<>>
        THEN LET tags == TrimAll(Split(s.resticTags, ","))
             IN  IF Len(tags) > 0 THEN base \o TagArgs(tags) ELSE base
        ELSE base

\* Variant in which the password command is set only without a password file
BuildEnv_Exclusive(s, penv) ==
    LET env0 == ("RESTIC_REPOSITORY" :> s.resticRepository) @@ penv
    IN  IF s.resticPasswordFile # <<>>
        THEN ("RESTIC_PASSWORD_FILE" :> s.resticPasswordFile) @@ env0
        ELSE IF s.resticPasswordCommand # <<>>
        THEN ("RESTIC_PASSWORD_COMMAND" :> s.resticPasswordCommand) @@ env0
        ELSE env0

\* The environment resticBackup builds
BuildEnv(s, penv) ==
    LET env0 == ("RESTIC_REPOSITORY" :> s.resticRepository) @@ penv
        env1 == IF s.resticPasswordFile # <<>>
                THEN ("RESTIC_PASSWORD_FILE" :> s.resticPasswordFile) @@ env0
                ELSE env0
    IN  IF s.resticPasswordCommand # <<>>
        THEN ("RESTIC_PASSWORD_COMMAND" :> s.resticPasswordCommand) @@ env1
        ELSE env1

\* Variant of resticBackup without the repository check
resticBackup_Unchecked(s, penv) ==
    IF s.resticBinPath = Null \/ s.resticBinPath = <<>>
    THEN [kind |-> "throw", error |-> "ERR_INVALID_ARG: file",
          file |-> s.resticBinPath, args |-> BuildArgs(s),
          env |-> BuildEnv(s, penv)]
    ELSE [kind |-> "spawn", error |-> "",
          file |-> s.resticBinPath, args |-> BuildArgs(s),
          env |-> BuildEnv(s, penv)]

\* The synchronous part of resticBackup, up to the await of execFile.
\* execFile throws without spawning when its file argument is not a
\* non-empty string.
resticBackup(s, penv) ==
    IF ~Truthy(s.resticRepository)
    THEN [kind |-> "throw", error |-> "Restic repository not configured",
          file |-> <<>>, args |-> <<>>, env |-> EmptyObject]
    ELSE IF s.resticBinPath = Null \/ s.resticBinPath = <<>>
    THEN [kind |-> "throw", error |-> "ERR_INVALID_ARG: file",
          file |-> s.resticBinPath, args |-> BuildArgs(s),
          env |-> BuildEnv(s, penv)]
    ELSE [kind |-> "spawn", error |-> "",
          file |-> s.resticBinPath, args |-> BuildArgs(s),
          env |-> BuildEnv(s, penv)]

\* Variant that parses the captured output whatever the exit code
afterExecFile_IgnoresExit(exitCode, stdout) == parseResticSummary(stdout)

\* The rest of resticBackup, once the subprocess has exited with exitCode
\* and stdout was captured
afterExecFile(exitCode, stdout) ==
    IF exitCode # 0 THEN Throw("Command failed")
    ELSE parseResticSummary(stdout)

-----------------------------------------------------------------------------
(* Inputs *)

Repositories == {<<>>, <<"r">>}

BinPaths == {<<>>, <<"/", "r">>}

PasswordFiles == {<<>>, <<"f">>}

PasswordCommands == {<<>>, <<"c">>}

TagSamples == {<<>>, <<"a", ",", " ">>}

Intervals == {0, 3600}

ProcessEnvs == {[PATH |-> <<"/", "b">>], [PATH |-> <<"/", "b">>, SHELL |-> <<"/", "s">>]}

\* How the login shell subprocess may end
ShellRuns ==
    {[ok |-> FALSE, stdout |-> <<>>],
     [ok |-> TRUE, stdout |-> <<"P", "=", "/", "b", "\n">>]}

\* How the `which restic` subprocess may end
WhichRuns ==
    {[ok |-> FALSE, stdout |-> <<>>],
     [ok |-> TRUE, stdout |-> <<"\n">>],
     [ok |-> TRUE, stdout |-> <<"/", "r", "\n">>]}

ExitCodes == {0, 1}

\* Captured outputs of the backup subprocess
StdoutSamples ==
    {<<"T", "\n", "S1", "\n">>,
     <<"X", "\n", "T", "\n">>}

\* Every captured output of at most MaxOut tokens
OutputTokens == {"S1", "S2", "T", "N", "7", "X", " ", "\n"}

Outputs == StringsUpTo(OutputTokens, MaxOut)

\* Every tag string of at most MaxTagLen characters, and the documented one
TagAlphabet == {"a", "b", " ", ","}

DocumentedTags == <<" ", " ", "a", ",", " ", "b", " ", ",", ",", "c", " ">>

TagStrings == StringsUpTo(TagAlphabet, MaxTagLen) \cup {DocumentedTags}

\* What a previous session may have left in the two stores
SavedLocal ==
    {EmptyObject} \cup
    [enabled : BOOLEAN, resticBinPath : BinPaths,
     resticRepository : Repositories, resticPasswordFile : {<<>>},
     resticPasswordCommand : {<<>>}]

SavedData ==
    {EmptyObject} \cup [resticTags : TagSamples, backupInterval : Intervals]

-----------------------------------------------------------------------------
(* The plugin *)

Pending == [kind |-> "pending"]

NoShellCalls == [calls |-> 0, spawns |-> 0, stdout |-> <<>>, result |-> NotCalled]

\* The bookkeeping of one more getShellEnv call, made by detectRestic
AfterShellCall(sh, penv, shellRun) ==
    [calls |-> sh.calls + 1,
     spawns |-> sh.spawns + ShellSpawns(penv),
     stdout |-> IF ShellSpawns(penv) > 0 /\ shellRun.ok THEN shellRun.stdout
                ELSE <<>>,
     result |-> getShellEnv(penv, shellRun)]

InFlight == {i \in 1..Len(calls) : calls[i].result = Pending}

Init ==
    /\ pc = "constructed"
    /\ processEnv \in ProcessEnvs
    /\ settings = DEFAULT_SETTINGS
    /\ localStorage \in SavedLocal
    /\ dataJson \in SavedData
    /\ detectResult = NotCalled
    /\ timerRegistered = FALSE
    /\ commandRegistered = FALSE
    /\ calls = <<>>
    /\ spawnCount = 0
    /\ notices = <<>>
    /\ unhandled = {}
    /\ edits = 0
    /\ shell = NoShellCalls

\* onload: loadSettings, addSettingTab, registerInterval, addCommand, with
\* the two subprocesses of detectRestic ending as shellRun and whichRun
Load(shellRun, whichRun) ==
    /\ pc = "constructed"
    /\ LET r == loadSettings(settings, localStorage, dataJson, processEnv,
                             shellRun, whichRun)
           loaded == r.kind = "return"
       IN  /\ settings' = r.settings
           /\ localStorage' = r.local
           /\ dataJson' = r.data
           /\ detectResult' = r.detect
           /\ shell' = IF r.detect = NotCalled THEN shell
                       ELSE AfterShellCall(shell, processEnv, shellRun)
           /\ pc' = IF loaded THEN "loaded" ELSE "failed"
           /\ timerRegistered' =
                  (loaded /\ r.settings.enabled # FALSE
                          /\ r.settings.backupInterval # 0)
           /\ commandRegistered' = (loaded /\ r.settings.enabled # FALSE)
    /\ UNCHANGED <<processEnv, calls, spawnCount, notices, unhandled, edits>>

onload == \E shellRun \in ShellRuns, whichRun \in WhichRuns : Load(shellRun, whichRun)

\* unload: the plugin overrides it with an empty body
unload ==
    /\ pc = "loaded"
    /\ pc' = "unloaded"
    /\ UNCHANGED <<processEnv, settings, localStorage, dataJson, detectResult,
                   timerRegistered, commandRegistered, calls, spawnCount,
                   notices, unhandled, edits, shell>>

\* Variant in which a run in flight reads the settings again: its
\* invocation follows the change
onChange_Live(key, value) ==
    /\ pc = "loaded"
    /\ edits < MaxEdits
    /\ edits' = edits + 1
    /\ settings[key] # value
    /\ LET s == [settings EXCEPT ![key] = value]
       IN  /\ settings' = s
           /\ localStorage' = saveSettings(s).local
           /\ dataJson' = saveSettings(s).data
           /\ calls' = [i \in 1..Len(calls) |->
                            IF calls[i].result = [kind |-> "pending"]
                            THEN [calls[i] EXCEPT
                                      !.file = s.resticBinPath,
                                      !.args = BuildArgs(s),
                                      !.env = BuildEnv(s, processEnv)]
                            ELSE calls[i]]
    /\ UNCHANGED <<pc, processEnv, detectResult, timerRegistered,
                   commandRegistered, spawnCount, notices, unhandled, shell>>

\* An onChange handler of the settings tab: one field is assigned, then
\* saveSettings writes both stores
onChange(key, value) ==
    /\ pc = "loaded"
    /\ edits < MaxEdits
    /\ edits' = edits + 1
    /\ settings[key] # value
    /\ LET s == [settings EXCEPT ![key] = value]
       IN  /\ settings' = s
           /\ localStorage' = saveSettings(s).local
           /\ dataJson' = saveSettings(s).data
    /\ UNCHANGED <<pc, processEnv, detectResult, timerRegistered,
                   commandRegistered, calls, spawnCount, notices, unhandled,
                   shell>>

SetEnabled == \E v \in BOOLEAN : onChange("enabled", v)

SetBinPath == \E v \in BinPaths : onChange("resticBinPath", v)

SetRepository == \E v \in Repositories : onChange("resticRepository", v)

SetPasswordFile == \E v \in PasswordFiles : onChange("resticPasswordFile", v)

SetPasswordCommand ==
    \E v \in PasswordCommands : onChange("resticPasswordCommand", v)

SetTags == \E v \in TagSamples : onChange("resticTags", v)

SetInterval == \E v \in Intervals : onChange("backupInterval", v)

\* What the caller of resticBackup does with a settled promise: the command
\* callback shows a Notice from .then or .catch; the interval callback
\* attaches no handler
Deliver(i, trigger, result) ==
    /\ notices' = IF trigger = "manual"
                  THEN Append(notices, [call |-> i, result |-> result])
                  ELSE notices
    /\ unhandled' = IF trigger = "timer" /\ result.kind = "throw"
                    THEN unhandled \cup {i}
                    ELSE unhandled

\* The record of a call whose synchronous part ended as r
NewCall(trigger, r) ==
    [trigger |-> trigger, file |-> r.file, args |-> r.args, env |-> r.env,
     spawned |-> r.kind = "spawn", exitCode |-> -1, stdout |-> <<>>,
     result |-> IF r.kind = "spawn" THEN Pending ELSE Throw(r.error)]

\* A call of resticBackup up to its await
Call(trigger) ==
    /\ Len(calls) < MaxCalls
    /\ LET r == resticBackup(settings, processEnv)
           i == Len(calls) + 1
       IN  /\ calls' = Append(calls, NewCall(trigger, r))
           /\ IF r.kind = "spawn"
              THEN /\ spawnCount' = spawnCount + 1
                   /\ UNCHANGED <<notices, unhandled>>
              ELSE /\ spawnCount' = spawnCount
                   /\ Deliver(i, trigger, Throw(r.error))
    /\ UNCHANGED <<pc, processEnv, settings, localStorage, dataJson,
                   detectResult, timerRegistered, commandRegistered, edits,
                   shell>>

\* The window.setInterval callback
IntervalCallback == timerRegistered /\ Call("timer")

\* The callback of the "Backup" command
CommandCallback == commandRegistered /\ Call("manual")

\* The subprocess of call i exits; resticBackup resumes after its await
ExecFileSettles(i, exitCode, stdout) ==
    /\ i \in InFlight
    /\ LET result == afterExecFile(exitCode, stdout)
       IN  /\ calls' = [calls EXCEPT ![i].exitCode = exitCode,
                                     ![i].stdout = stdout,
                                     ![i].result = result]
           /\ Deliver(i, calls[i].trigger, result)
    /\ UNCHANGED <<pc, processEnv, settings, localStorage, dataJson,
                   detectResult, timerRegistered, commandRegistered,
                   spawnCount, edits, shell>>

SubprocessExit ==
    \E i \in InFlight :
        \E exitCode \in ExitCodes, stdout \in StdoutSamples :
            ExecFileSettles(i, exitCode, stdout)

\* Lifecycle and scheduling: a session from construction, with the settings
\* that decide whether and when runs start
Next ==
    \/ onload
    \/ unload
    \/ SetEnabled
    \/ SetRepository
    \/ SetInterval
    \/ IntervalCallback
    \/ CommandCallback
    \/ SubprocessExit

Spec == Init /\ [][Next]_vars

-----------------------------------------------------------------------------
(* Focused specifications: the same actions from states a session reaches  *)

\* An ambient environment that already names a repository
AmbientEnv ==
    [PATH |-> <<"/", "b">>, SHELL |-> <<"/", "s">>,
     RESTIC_REPOSITORY |-> <<"o">>]

\* A loaded plugin with settings s, as after onload from stores holding s
Loaded(s, timer, command) ==
    /\ pc = "loaded"
    /\ processEnv = AmbientEnv
    /\ settings = s
    /\ localStorage = saveSettings(s).local
    /\ dataJson = saveSettings(s).data
    /\ detectResult = NotCalled
    /\ timerRegistered = timer
    /\ commandRegistered = command
    /\ notices = <<>>
    /\ unhandled = {}
    /\ edits = 0
    /\ shell = NoShellCalls

ConfiguredSettings ==
    [DEFAULT_SETTINGS EXCEPT !.enabled = TRUE,
                             !.resticBinPath = <<"/", "r">>,
                             !.resticRepository = <<"r">>]

\* Settings an enabled session may load from its stores without detection
StoredSettings ==
    [enabled : {TRUE}, resticBinPath : {<<"/", "r">>},
     resticRepository : Repositories, resticPasswordFile : PasswordFiles,
     resticPasswordCommand : PasswordCommands, resticTags : TagSamples,
     backupInterval : Intervals]

\* Invocation building: a loaded session, every settings change, both
\* triggers
InitInvocation ==
    /\ \E s \in StoredSettings : Loaded(s, s.backupInterval # 0, TRUE)
    /\ calls = <<>>
    /\ spawnCount = 0

NextInvocation ==
    \/ SetEnabled
    \/ SetBinPath
    \/ SetRepository
    \/ SetPasswordFile
    \/ SetPasswordCommand
    \/ SetTags
    \/ SetInterval
    \/ IntervalCallback
    \/ CommandCallback

SpecInvocation == InitInvocation /\ [][NextInvocation]_vars

\* Invocation building over every tag string
InitTags ==
    /\ \E t \in TagStrings :
           Loaded([ConfiguredSettings EXCEPT !.resticTags = t], TRUE, TRUE)
    /\ calls = <<>>
    /\ spawnCount = 0

NextTags ==
    \/ IntervalCallback
    \/ CommandCallback

SpecTags == InitTags /\ [][NextTags]_vars

\* One run in flight, its subprocess ending with any captured output
InitParse ==
    /\ Loaded(ConfiguredSettings, TRUE, TRUE)
    /\ \E trigger \in {"timer", "manual"} :
           calls = <<NewCall(trigger,
                             resticBackup(ConfiguredSettings, AmbientEnv))>>
    /\ spawnCount = 1

CapturedOutputExit ==
    \E i \in InFlight :
        \E exitCode \in ExitCodes, stdout \in Outputs :
            ExecFileSettles(i, exitCode, stdout)

NextParse == CapturedOutputExit

SpecParse == InitParse /\ [][NextParse]_vars

\* The login shell's output, character by character
EnvAlphabet == {"A", "b", "=", "\n"}

ShellOutputs == StringsUpTo(EnvAlphabet, MaxEnvLen)

\* The login shell fails, or prints any of the outputs
EnvShellRuns ==
    {[ok |-> FALSE, stdout |-> <<>>]}
        \cup {[ok |-> TRUE, stdout |-> out] : out \in ShellOutputs}

\* A plugin constructed over empty stores: every onload detects restic, and
\* so calls getShellEnv
InitEnv ==
    /\ pc = "constructed"
    /\ processEnv \in ProcessEnvs
    /\ settings = DEFAULT_SETTINGS
    /\ localStorage = EmptyObject
    /\ dataJson = EmptyObject
    /\ detectResult = NotCalled
    /\ timerRegistered = FALSE
    /\ commandRegistered = FALSE
    /\ calls = <<>>
    /\ spawnCount = 0
    /\ notices = <<>>
    /\ unhandled = {}
    /\ edits = 0
    /\ shell = NoShellCalls

onloadShell ==
    /\ pc = "constructed"
    /\ \E shellRun \in EnvShellRuns, whichRun \in WhichRuns :
           Load(shellRun, whichRun)

\* The plugin is enabled again: a new instance, whose settings field starts
\* as DEFAULT_SETTINGS, over the stores as they are; it has not called
\* getShellEnv yet, the counts of calls and subprocesses go on
construct ==
    /\ pc \in {"unloaded", "failed"}
    /\ shell.calls < MaxLoads
    /\ pc' = "constructed"
    /\ settings' = DEFAULT_SETTINGS
    /\ detectResult' = NotCalled
    /\ timerRegistered' = FALSE
    /\ commandRegistered' = FALSE
    /\ shell' = [shell EXCEPT !.stdout = <<>>, !.result = NotCalled]
    /\ UNCHANGED <<processEnv, localStorage, dataJson, calls, spawnCount,
                   notices, unhandled, edits>>

NextEnv ==
    \/ onloadShell
    \/ unload
    \/ construct

SpecEnv == InitEnv /\ [][NextEnv]_vars

-----------------------------------------------------------------------------
(* Properties *)

Range(seq) == {seq[i] : i \in 1..Len(seq)}

Settled == {i \in 1..Len(calls) : calls[i].spawned /\ calls[i].result # Pending}

ConfigurationError == Throw("Restic repository not configured")

BackupFailedError == Throw("Command failed")

\* The lines of a captured output, as they stand in it
RawLines(out) == Split(out, "\n")

\* A line that parses to a record whose message_type is "summary"
IsSummaryText(line) ==
    LET p == JSONParse(line)
    IN  /\ p.kind = "return"
        /\ p.value.type = "object"
        /\ "message_type" \in DOMAIN p.value
        /\ p.value.message_type = "summary"

SummaryLines(out) ==
    {k \in 1..Len(RawLines(out)) : IsSummaryText(RawLines(out)[k])}

\* The record written on a summary line
RecordOnLine(line) ==
    JSONValue[CHOOSE t \in Range(line) : t \in {"S1", "S2"}]

FirstSummaryLine(out) ==
    CHOOSE k \in SummaryLines(out) : \A j \in SummaryLines(out) : k <= j

\* C1: at most one backup subprocess started by resticBackup is in flight
\* at any time, whatever the interleaving of timer ticks and manual commands.
C1_SingleFlight == Cardinality(InFlight) <= 1

\* C2: a call of resticBackup made while a run is in flight spawns no
\* subprocess and ends with a BusyError, and it does not end the run that is
\* in flight.
C2_SecondCallIsBusy ==
    [][(InFlight # {} /\ Len(calls') > Len(calls)) =>
          /\ spawnCount' = spawnCount
          /\ calls'[Len(calls')].result = Throw("BusyError")
          /\ InFlight' = InFlight]_vars

\* C3: a call of resticBackup made while the repository setting is empty
\* ends with the configuration error and spawns no subprocess, whatever the
\* other settings and whichever trigger made the call.
C3_EmptyRepositoryFails ==
    [][(settings.resticRepository = <<>> /\ Len(calls') > Len(calls)) =>
          /\ spawnCount' = spawnCount
          /\ ~calls'[Len(calls')].spawned
          /\ calls'[Len(calls')].result = ConfigurationError]_vars

C3_Witness ==
    /\ \E i \in 1..Len(calls) :
           calls[i].trigger = "timer" /\ calls[i].result = ConfigurationError
    /\ \E i \in 1..Len(calls) :
           calls[i].trigger = "manual" /\ calls[i].result = ConfigurationError
    /\ spawnCount = 0

\* C4: a run whose subprocess exits zero with an output holding no summary
\* line (empty, blank, malformed, or JSON of another kind) ends with the
\* no-summary error and never resolves.
C4_NoSummaryIsError ==
    \A i \in Settled :
        (calls[i].exitCode = 0 /\ SummaryLines(calls[i].stdout) = {})
            => calls[i].result = NoSummaryError

C4_Witness ==
    \E i \in Settled :
        /\ calls[i].exitCode = 0
        /\ calls[i].stdout = <<"X", "\n", "T", "\n", "N">>
        /\ calls[i].result = NoSummaryError

\* C5: every call that launched a subprocess launched exactly one, and when
\* that subprocess exits non-zero the call ends with the backup-failed error
\* rather than with anything parsed from the captured output.
C5_FailedRunReportedOnce ==
    /\ spawnCount = Cardinality({i \in 1..Len(calls) : calls[i].spawned})
    /\ \A i \in Settled :
           calls[i].exitCode # 0 => calls[i].result = BackupFailedError

C5_Witness ==
    \E i \in Settled :
        /\ calls[i].exitCode = 1
        /\ SummaryLines(calls[i].stdout) # {}
        /\ calls[i].result = BackupFailedError
        /\ spawnCount = 1
        /\ InFlight = {}

\* C6: the outcome of every finished run, of a timer tick as of a manual
\* command, is handed to the result handler, and no rejection is left
\* unhandled.
C6_OutcomesHandled ==
    /\ \A i \in 1..Len(calls) :
           calls[i].result # Pending =>
               \E n \in 1..Len(notices) :
                   notices[n].call = i /\ notices[n].result = calls[i].result
    /\ unhandled = {}

\* The trimmed segments of a tag string that are not empty, in order
NonEmptyTags(tagString) ==
    SelectSeq(TrimAll(Split(tagString, ",")), LAMBDA t : t # <<>>)

\* C7: the argument list holds one "--tag <value>" pair per non-empty
\* trimmed segment of the tag string, in order, and none with an empty value.
C7_TagsTrimmedAndFiltered ==
    \A i \in 1..Len(calls) :
        calls[i].args = <<BackupVerb, BasePath, JsonFlag, SkipFlag>>
                            \o TagArgs(NonEmptyTags(settings.resticTags))

\* C8: detectRestic never fails, so onload is never aborted by it.
C8_DetectNeverFails == detectResult.kind # "throw" /\ pc # "failed"

\* C9: when the captured output holds two or more summary lines, the record
\* returned is the one of the first of them.
C9_FirstSummaryWins ==
    \A i \in Settled :
        (calls[i].exitCode = 0 /\ Cardinality(SummaryLines(calls[i].stdout)) >= 2)
            => LET out == calls[i].stdout
               IN  calls[i].result =
                       Return(RecordOnLine(RawLines(out)[FirstSummaryLine(out)]))

C9_Witness ==
    \E i \in Settled :
        /\ calls[i].exitCode = 0
        /\ calls[i].stdout = <<"T", "\n", "S2", "\n", "S1">>
        /\ calls[i].result = Return(JSONValue["S2"])

\* C10: when the captured output holds exactly one summary line, with any
\* malformed and non-summary lines before and after it, the record returned
\* is the one written on that line.
C10_SummaryAmidNoise ==
    \A i \in Settled :
        (calls[i].exitCode = 0 /\ Cardinality(SummaryLines(calls[i].stdout)) = 1)
            => LET out == calls[i].stdout
               IN  calls[i].result =
                       Return(RecordOnLine(RawLines(out)[FirstSummaryLine(out)]))

C10_Witness ==
    \E i \in Settled :
        /\ calls[i].exitCode = 0
        /\ calls[i].stdout = <<"X", "\n", "S1", "\n", "T">>
        /\ calls[i].result = Return(JSONValue["S1"])

\* A step in which a timer tick calls resticBackup
TimerRunStarts ==
    /\ Len(calls') > Len(calls)
    /\ calls'[Len(calls')].trigger = "timer"

\* C11: a plugin loaded with an interval of zero registers no timer, and
\* its manual "Backup" command is available.
C11_ZeroIntervalManualOnly ==
    [][(pc = "constructed" /\ pc' = "loaded" /\ settings'.backupInterval = 0)
          => (~timerRegistered' /\ commandRegistered')]_vars

\* C12: once unload has completed, no timer tick starts a backup run.
C12_NoTickAfterUnload == [][pc = "unloaded" => ~TimerRunStarts]_vars

\* C13: the results of runs are delivered in trigger order: of two delivered
\* results of calls that launched a subprocess, the one of the earlier call
\* comes first.
C13_DeliveryInTriggerOrder ==
    \A m, n \in 1..Len(notices) :
        (m < n /\ calls[notices[m].call].spawned
               /\ calls[notices[n].call].spawned)
            => notices[m].call < notices[n].call

\* C17: while the current settings have backupInterval 0, or enabled
\* switched off, no timer tick starts a backup run.
C17_DisabledMeansNoTicks ==
    [][(settings.backupInterval = 0 \/ settings.enabled = FALSE)
          => ~TimerRunStarts]_vars

\* C19: loadSettings keeps what was stored: every stored key other than a
\* newly detected binary path has the same value in the store after the
\* load, and that value in this.settings.
C19_LoadPreservesStores ==
    [][(pc = "constructed" /\ pc' = "loaded") =>
          /\ \A k \in DOMAIN dataJson :
                 /\ k \in DOMAIN dataJson'
                 /\ dataJson'[k] = dataJson[k]
                 /\ settings'[k] = dataJson[k]
          /\ \A k \in DOMAIN localStorage \ {"resticBinPath"} :
                 /\ k \in DOMAIN localStorage'
                 /\ localStorage'[k] = localStorage[k]
                 /\ settings'[k] = localStorage[k]]_vars

\* The overlay the settings call for: the repository always, each password
\* variable when its setting is not empty
OverlayKeys(s) ==
    {"RESTIC_REPOSITORY"}
        \cup {k \in {"RESTIC_PASSWORD_FILE"} : s.resticPasswordFile # <<>>}
        \cup {k \in {"RESTIC_PASSWORD_COMMAND"} : s.resticPasswordCommand # <<>>}

OverlayValue(s, k) ==
    CASE k = "RESTIC_REPOSITORY" -> s.resticRepository
      [] k = "RESTIC_PASSWORD_FILE" -> s.resticPasswordFile
      [] k = "RESTIC_PASSWORD_COMMAND" -> s.resticPasswordCommand

\* A step in which resticBackup is called and gets past its repository check
InvocationBuilt ==
    /\ Len(calls') > Len(calls)
    /\ settings.resticRepository # <<>>

\* C14: the environment of a run is the ambient environment with the overlay
\* on top: RESTIC_REPOSITORY always, RESTIC_PASSWORD_FILE exactly when the
\* password file is set, RESTIC_PASSWORD_COMMAND exactly when the password
\* command is set, both when both are.
C14_EnvironmentOverlay ==
    [][InvocationBuilt =>
          LET env == calls'[Len(calls')].env
          IN  /\ DOMAIN env = DOMAIN processEnv \cup OverlayKeys(settings)
              /\ \A k \in OverlayKeys(settings) :
                     env[k] = OverlayValue(settings, k)
              /\ \A k \in DOMAIN processEnv \ OverlayKeys(settings) :
                     env[k] = processEnv[k]]_vars

C14_Witness ==
    \E i \in InFlight :
        /\ "RESTIC_PASSWORD_FILE" \in DOMAIN calls[i].env
        /\ "RESTIC_PASSWORD_COMMAND" \in DOMAIN calls[i].env
        /\ calls[i].env["RESTIC_REPOSITORY"] = <<"r">>
        /\ calls[i].env["PATH"] = processEnv["PATH"]

\* C18: an invocation is built from the settings as they are when
\* resticBackup is called, and no later step, a settings change included,
\* alters the binary, arguments or environment of a call already made.
C18_InvocationIsSnapshot ==
    [][/\ \A i \in 1..Len(calls) :
              /\ calls'[i].file = calls[i].file
              /\ calls'[i].args = calls[i].args
              /\ calls'[i].env = calls[i].env
       /\ InvocationBuilt =>
              LET call == calls'[Len(calls')]
              IN  /\ call.file = settings.resticBinPath
                  /\ call.args = BuildArgs(settings)
                  /\ call.env["RESTIC_REPOSITORY"] = settings.resticRepository
                  /\ ("RESTIC_PASSWORD_FILE" \in DOMAIN call.env)
                         = (settings.resticPasswordFile # <<>>)]_vars

C18_Witness ==
    \E i \in InFlight :
        /\ edits > 0
        /\ \/ calls[i].file # settings.resticBinPath
           \/ calls[i].args # BuildArgs(settings)
           \/ calls[i].env["RESTIC_REPOSITORY"] # settings.resticRepository

\* The pairs of one line: split at its first "=", nothing without one
PairsOfLine(line) ==
    LET i == IndexOf(line, "=")
    IN  IF i <= 1 THEN EmptyObject
        ELSE SubSeq(line, 1, i - 1) :> SubSeq(line, i + 1, Len(line))

RECURSIVE PairsOfLines(_)
\* The pairs of the lines, a later line winning over an earlier one
PairsOfLines(lines) ==
    IF lines = <<>> THEN EmptyObject
    ELSE PairsOfLines(Tail(lines)) @@ PairsOfLine(Head(lines))

\* C15: getShellEnv splits each line of the shell's output on its first "="
\* only: the value is everything after it, later "=" included; a line
\* without "=" adds no entry; a key with an empty value is recorded with the
\* empty string.
C15_SplitOnFirstEquals ==
    shell.result.kind = "return"
        => shell.result.value = PairsOfLines(Split(shell.stdout, "\n"))

MissingShellError == Throw("SHELL environment variable is set")

\* C16: every call of getShellEnv spawns exactly one shell subprocess when
\* SHELL is set, nothing being cached between calls; when SHELL is not set
\* it fails with a configuration error and spawns nothing.
C16_OneShellPerCall ==
    IF Truthy(Get(processEnv, "SHELL"))
    THEN /\ shell.spawns = shell.calls
         /\ shell.result # MissingShellError
    ELSE /\ shell.spawns = 0
         /\ pc # "constructed" =>
                (pc = "failed" /\ shell.result = MissingShellError)

C16_Witness ==
    /\ shell.calls = 2
    /\ shell.spawns = 2
    /\ shell.result.kind = "return"

====
